---- MODULE Spec2Model ----
(***************************************************************************)
(* A state-machine model of the whiteboard application (src/src/lib.rs,    *)
(* undo.rs, state.rs, colors.rs, tools.rs).                                *)
(*                                                                         *)
(* One action per event the egui frame loop hands to WhiteboardApp: one    *)
(* key press of handle_keyboard_event, one pointer phase of the canvas     *)
(* response (drag started / dragged / drag stopped), one click on a        *)
(* side-panel widget.  Coordinates are f32 in the code; the model uses     *)
(* integer coordinates and exact arithmetic, and explores only the resize  *)
(* inputs whose results are integers again.                                *)
(***************************************************************************)
EXTENDS Integers, Sequences, FiniteSets, TLC

(***************************************************************************)
(* Bounds of the exploration (not program constants).                      *)
(***************************************************************************)
MaxLines == 3       \* brush commits are explored while the canvas has fewer strokes
MaxPts == 2         \* brush samples are explored while current_line is shorter
MaxHist == 4        \* pushes are explored while the history has fewer new entries
MaxPalette == 6     \* palette appends are explored while the palette is shorter
CoordBound == 20    \* moves and resizes are explored while |coordinate| stays within
GeomLines == 2      \* strokes drawn before the selection geometry is explored

(***************************************************************************)
(* Program constants.                                                      *)
(***************************************************************************)
MAX_UNDO_STACK_SIZE == 100     \* undo.rs:2
ERASE_TOLERANCE == 5           \* lib.rs:515  stroke_width + 5.0
EXPAND_MARGIN == 5             \* lib.rs:397  bounding_box.expand(5.0)
CORNER_SIZE == 10              \* lib.rs:287  vec2(10.0, 10.0)
RESIZE_MARGIN == 5             \* lib.rs:472  pointer_pos +/- 5.0
DEFAULT_STROKE_WIDTH == 3      \* lib.rs:641

(***************************************************************************)
(* Option<T> is a sequence of length at most one.                          *)
(***************************************************************************)
None == << >>
Some(v) == << v >>
IsSome(o) == o # << >>
Unwrap(o) == o[1]

Abs(n) == IF n < 0 THEN -n ELSE n
Min2(a, b) == IF a <= b THEN a ELSE b
Max2(a, b) == IF a >= b THEN a ELSE b
Range(s) == { s[i] : i \in 1..Len(s) }

(***************************************************************************)
(* Color32 is four bytes <<r, g, b, a>>, premultiplied by alpha.           *)
(***************************************************************************)
WHITE == << 255, 255, 255, 255 >>
RED == << 255, 0, 0, 255 >>
YELLOW == << 255, 255, 0, 255 >>
GREEN == << 0, 255, 0, 255 >>
BLUE == << 0, 0, 255, 255 >>
DefaultColors == << WHITE, RED, YELLOW, GREEN, BLUE >>

(***************************************************************************)
(* Inputs of the exploration.                                              *)
(***************************************************************************)
BrushPos == { << 0, 0 >>, << 10, 10 >> }
ErasePos == { << 5, 5 >>, << 18, 10 >>, << 40, 40 >> }
SelectPos == { << 5, 5 >>, << 40, 40 >> }
FullPos == { << 5, 5 >>, << 100, 100 >> }
GeomPos == { << -5, -5 >>, << 15, 15 >>, << 25, 15 >>, << 40, 40 >> }
SliderWidths == { 1, 3 }
SliderErasePos == { << 5, 5 >>, << 17, 10 >> }
ResizePos == { << 5, 5 >>, << 15, 15 >>, << 17, 17 >>, << 25, 15 >> }
DigitIndices == { 0, 1, 5 }
PickColors == { << 2, 0, 0, 128 >> }
Paths == { "a.wb" }

VARIABLES
    lines,                  \* Vec<Line>: the canvas
    current_line,           \* Vec<Pos2>: the brush's in-progress line
    palette,                \* ColorPalette: [colors, active_color_index]
    stroke_width,           \* f32: the slider's value
    current_tool,           \* Tool
    undo_stack,             \* UndoStack.stack: VecDeque<UndoAction>, front first
    whiteboard_file,        \* Option<PathBuf>
    selection_start,        \* Option<Pos2>
    selection_current,      \* Option<Pos2>
    selected_lines,         \* HashSet<usize>, indices from 0
    is_moving_selection,    \* bool
    last_mouse_pos,         \* Option<Pos2>
    resizing_corner,        \* Option<ResizeCorner>
    resize_original_bbox,   \* Option<Rect>
    resize_original_lines,  \* Vec<(usize, Line)>, as a set of pairs
    dragging,               \* egui: a drag of the canvas response is in progress
    fs,                     \* the file system: path -> contents
    panicked,               \* the process died in a panic
    last,                   \* history variable: the event handled last and its outcome
    batch,                  \* history variable: the erase batch being undone, if any
    escaped,                \* history variable: Escape was pressed during this gesture
    moved_from              \* history variable: the start of this gesture's move

appVars == << lines, current_line, palette, stroke_width, current_tool, undo_stack,
              whiteboard_file >>
selVars == << selection_start, selection_current, selected_lines, is_moving_selection,
              last_mouse_pos, resizing_corner, resize_original_bbox,
              resize_original_lines >>
vars == << appVars, selVars, dragging, fs, panicked, last, batch, escaped, moved_from >>

(***************************************************************************)
(* egui::Rect.  Rect::NOTHING (min = +inf, max = -inf) is the record with  *)
(* nothing = TRUE; every other Rect has finite corners, min above max      *)
(* included (a resize can produce one).                                    *)
(***************************************************************************)
NOTHING == [nothing |-> TRUE, min |-> << 0, 0 >>, max |-> << 0, 0 >>]
MkRect(mn, mx) == [nothing |-> FALSE, min |-> mn, max |-> mx]

\* Rect::extend_with
ExtendWith(r, p) ==
    IF r.nothing THEN MkRect(p, p)
    ELSE MkRect(<< Min2(r.min[1], p[1]), Min2(r.min[2], p[2]) >>,
                << Max2(r.max[1], p[1]), Max2(r.max[2], p[2]) >>)

RECURSIVE ExtendWithAll(_, _)
ExtendWithAll(r, pts) ==
    IF pts = << >> THEN r ELSE ExtendWithAll(ExtendWith(r, Head(pts)), Tail(pts))

\* Rect::contains: closed on every side
RectContains(r, p) ==
    /\ ~r.nothing
    /\ r.min[1] <= p[1] /\ p[1] <= r.max[1]
    /\ r.min[2] <= p[2] /\ p[2] <= r.max[2]

RectIntersectsInside(r, o) ==
    /\ ~r.nothing /\ ~o.nothing
    /\ r.min[1] < o.max[1] /\ o.min[1] < r.max[1]
    /\ r.min[2] < o.max[2] /\ o.min[2] < r.max[2]

\* Rect::intersects: closed on every side
RectIntersects(r, o) ==
    /\ ~r.nothing /\ ~o.nothing
    /\ r.min[1] <= o.max[1] /\ o.min[1] <= r.max[1]
    /\ r.min[2] <= o.max[2] /\ o.min[2] <= r.max[2]

\* Rect::from_two_pos
FromTwoPos(a, b) ==
    MkRect(<< Min2(a[1], b[1]), Min2(a[2], b[2]) >>,
           << Max2(a[1], b[1]), Max2(a[2], b[2]) >>)

\* Rect::from_center_size with a square size
FromCenterSize(c, size) ==
    MkRect(<< c[1] - size \div 2, c[2] - size \div 2 >>,
           << c[1] + size \div 2, c[2] + size \div 2 >>)

\* Rect::expand
Expand(r, m) ==
    IF r.nothing THEN r
    ELSE MkRect(<< r.min[1] - m, r.min[2] - m >>, << r.max[1] + m, r.max[2] + m >>)

\* Rect::width, Rect::height (of NOTHING: -inf, which only "> 0.0" reads)
Width(r) == IF r.nothing THEN -1 ELSE r.max[1] - r.min[1]
Height(r) == IF r.nothing THEN -1 ELSE r.max[2] - r.min[2]

\* The bounding box of one line's points (lib.rs:357-360)
LineBBox(line) == ExtendWithAll(NOTHING, line.points)

(***************************************************************************)
(* distance_point_to_segment(p, a, b), as the exact square of the distance *)
(* written as a fraction << numerator, denominator >>, denominator > 0.    *)
(***************************************************************************)
DistSq(p, q) == (p[1] - q[1]) * (p[1] - q[1]) + (p[2] - q[2]) * (p[2] - q[2])

distance_point_to_segment_sq(p, a, b) ==
    LET l2 == DistSq(a, b)
        dot == (p[1] - a[1]) * (b[1] - a[1]) + (p[2] - a[2]) * (b[2] - a[2])
    IN  IF l2 = 0 THEN << DistSq(p, a), 1 >>
        ELSE IF dot <= 0 THEN << DistSq(p, a), 1 >>        \* t clamped to 0.0
        ELSE IF dot >= l2 THEN << DistSq(p, b), 1 >>       \* t clamped to 1.0
        ELSE << DistSq(p, a) * l2 - dot * dot, l2 >>

DistanceAtMost(p, a, b, r) ==
    LET d == distance_point_to_segment_sq(p, a, b)
    IN  d[1] <= r * r * d[2]

\* distance_point_to_segment(p, a, b) < r, for r >= 0
DistanceLess(p, a, b, r) ==
    LET d == distance_point_to_segment_sq(p, a, b)
    IN  d[1] < r * r * d[2]

(***************************************************************************)
(* UndoStack (undo.rs).  The stack is a sequence, front (oldest) first.    *)
(***************************************************************************)
Erase(line) == [kind |-> "Erase", line |-> line]
Draw(line) == [kind |-> "Draw", line |-> line]

\* VecDeque::pop_front when the length exceeds MAX_UNDO_STACK_SIZE (undo.rs:24-26)
EvictOne(stack) == IF Len(stack) > MAX_UNDO_STACK_SIZE THEN Tail(stack) ELSE stack

\* UndoStack::add_erase
add_erase(stack, line) == EvictOne(Append(stack, Erase(line)))

\* UndoStack::add_draw
add_draw(stack, line) == EvictOne(Append(stack, Draw(line)))

extend_erase_evicting_newest(stack, erased) ==
    LET all == stack \o [i \in 1..Len(erased) |-> Erase(erased[i])]
    IN  IF Len(all) > MAX_UNDO_STACK_SIZE THEN SubSeq(all, 1, Len(all) - 1) ELSE all

\* UndoStack::extend_erase: every entry is pushed, then the length is checked once
extend_erase(stack, erased) ==
    EvictOne(stack \o [i \in 1..Len(erased) |-> Erase(erased[i])])

pop_oldest(stack) ==
    IF stack = << >> THEN << None, stack >>
    ELSE << Some(stack[1]), Tail(stack) >>

\* UndoStack::pop: << the popped entry as an Option, the stack left >>
pop(stack) ==
    IF stack = << >> THEN << None, stack >>
    ELSE << Some(stack[Len(stack)]), SubSeq(stack, 1, Len(stack) - 1) >>

(***************************************************************************)
(* ColorPalette (colors.rs).                                               *)
(***************************************************************************)
\* ColorPalette::default
DefaultPalette == [colors |-> DefaultColors, active_color_index |-> 0]

\* impl From<Vec<Color32>> for ColorPalette
PaletteFrom(colors) == [colors |-> colors, active_color_index |-> 0]

\* ColorPalette::get_current_color indexes the Vec: out of range it panics
CurrentColorPanics(pal) == pal.active_color_index >= Len(pal.colors)
get_current_color(pal) == pal.colors[pal.active_color_index + 1]

\* ColorPalette::set_active_color_index
set_active_color_index(pal, i) == [pal EXCEPT !.active_color_index = i]

(***************************************************************************)
(* The history entries an exploration starts with (SpecFull): the state    *)
(* after k brush strokes from (100,100) to (101,101) followed by the C key.*)
(* Pushes are explored onto an empty history and while fewer than MaxHist  *)
(* other entries are held; undos are explored MaxHist entries deep into    *)
(* the prefill.                                                            *)
(***************************************************************************)
PrefillLine == [points |-> << << 100, 100 >>, << 101, 101 >> >>, color |-> WHITE,
                width |-> DEFAULT_STROKE_WIDTH]
Prefill(k) == [i \in 1..k |-> Draw(PrefillLine)]
NewEntries(stack) == Cardinality({ i \in 1..Len(stack) : stack[i] # Draw(PrefillLine) })
HistRoom(n) == IF undo_stack = << >> THEN TRUE ELSE NewEntries(undo_stack) + n <= MaxHist
UndoRoom ==
    IF undo_stack = << >> THEN TRUE
    ELSE IF undo_stack[Len(undo_stack)] # Draw(PrefillLine) THEN TRUE
    ELSE Len(undo_stack) > MAX_UNDO_STACK_SIZE - MaxHist

(***************************************************************************)
(* The frame's painting reads the active color for the in-progress line    *)
(* (lib.rs:747-756): with the active index out of range it panics.         *)
(***************************************************************************)
RenderPanics(tool, cur, pal) ==
    tool = "Brush" /\ Len(cur) >= 2 /\ CurrentColorPanics(pal)

Rendered == panicked' = RenderPanics(current_tool', current_line', palette')

(***************************************************************************)
(* The history variables.  last names the event handled last, with its     *)
(* pointer position (None for a key or a widget).  batch is Some of        *)
(* [post, erased, undone] from an erase batch that removed strokes until   *)
(* an event other than an undo follows or all its strokes are restored.    *)
(* escaped holds from an Escape pressed during a gesture to its end.       *)
(* moved_from is Some of [p0, pn, lines]: the pointer position and the     *)
(* canvas of the drag-start event that began a move, and the gesture's     *)
(* latest pointer position, until the gesture's end.                       *)
(***************************************************************************)
Event(name, p) == [ev |-> name, p |-> p]
NewBatch(post, erased) == Some([post |-> post, erased |-> erased, undone |-> 0])
UndoneBatch ==
    IF IsSome(batch) /\ Unwrap(batch).undone < Len(Unwrap(batch).erased)
    THEN Some([Unwrap(batch) EXCEPT !.undone = @ + 1])
    ELSE None

(***************************************************************************)
(* A file's contents: missing (reading it fails), text that is not a       *)
(* WhiteboardState document, or a WhiteboardState document.                *)
(***************************************************************************)
Missing == [kind |-> "missing", lines |-> << >>, palette |-> << >>]
Garbage == [kind |-> "garbage", lines |-> << >>, palette |-> << >>]
Document(ls, pal) == [kind |-> "document", lines |-> ls, palette |-> pal]

(***************************************************************************)
(* WhiteboardApp::default                                                  *)
(***************************************************************************)
InitWith(stack) ==
    /\ lines = << >>
    /\ current_line = << >>
    /\ palette = DefaultPalette
    /\ stroke_width = DEFAULT_STROKE_WIDTH
    /\ current_tool = "Brush"
    /\ undo_stack = stack
    /\ whiteboard_file = None
    /\ selection_start = None
    /\ selection_current = None
    /\ selected_lines = {}
    /\ is_moving_selection = FALSE
    /\ last_mouse_pos = None
    /\ resizing_corner = None
    /\ resize_original_bbox = None
    /\ resize_original_lines = {}
    /\ dragging = FALSE
    /\ fs = [p \in Paths |-> Missing]
    /\ panicked = FALSE
    /\ last = Event("Init", None)
    /\ batch = None
    /\ escaped = FALSE
    /\ moved_from = None

Init == InitWith(<< >>)

(***************************************************************************)
(* Vec helpers.  Indices of the code count from 0, sequences from 1.       *)
(***************************************************************************)
\* Vec::remove(index)
RemoveAt(seq, index) == SubSeq(seq, 1, index) \o SubSeq(seq, index + 2, Len(seq))


\* The elements of a finite set of integers, largest first
\* (indices.sort_unstable_by(|a, b| b.cmp(a)), lib.rs:145)
RECURSIVE SortDescending(_)
SortDescending(S) ==
    IF S = {} THEN << >>
    ELSE LET m == CHOOSE x \in S : \A y \in S : y <= x
         IN  << m >> \o SortDescending(S \ {m})

(***************************************************************************)
(* Brush (lib.rs:712-718): a drag sample is appended unless it equals the  *)
(* last recorded point.                                                    *)
(***************************************************************************)
BrushAppendAlways(cur, p) == Append(cur, p)

BrushAppend(cur, p) ==
    IF cur # << >> /\ cur[Len(cur)] = p THEN cur ELSE Append(cur, p)

BrushDragged(p) ==
    /\ current_line' = BrushAppend(current_line, p)
    /\ Len(current_line') <= MaxPts
    /\ UNCHANGED << lines, undo_stack, selVars >>

(***************************************************************************)
(* WhiteboardApp::push_line (lib.rs:540-552), behind the test of           *)
(* lib.rs:732-735.  Building the Line reads the active color first.        *)
(***************************************************************************)
ShouldCommit == current_tool = "Brush" /\ current_line # << >>

NewLine == [points |-> current_line, color |-> get_current_color(palette),
            width |-> stroke_width]

push_line ==
    /\ Len(lines) < MaxLines
    /\ HistRoom(1)
    /\ lines' = Append(lines, NewLine)
    /\ undo_stack' = add_draw(undo_stack, NewLine)
    /\ current_line' = << >>

(***************************************************************************)
(* WhiteboardApp::handle_eraser (lib.rs:514-538)                           *)
(***************************************************************************)
erase_radius == stroke_width + ERASE_TOLERANCE

\* The partition's closure returns false (lib.rs:519-529)
EraserHits(line, p, radius) ==
    \E k \in 1..(Len(line.points) - 1) :
        DistanceLess(p, line.points[k], line.points[k + 1], radius)

PartitionNewestFirst(ls, p, radius) ==
    LET Kept(line) == ~EraserHits(line, p, radius)
        Deleted(line) == EraserHits(line, p, radius)
        d == SelectSeq(ls, Deleted)
    IN  << SelectSeq(ls, Kept), [i \in 1..Len(d) |-> d[Len(d) + 1 - i]] >>

\* lib.rs:518-530: partition keeps the canvas order on both sides
Partition(ls, p, radius) ==
    LET Kept(line) == ~EraserHits(line, p, radius)
        Deleted(line) == EraserHits(line, p, radius)
    IN  << SelectSeq(ls, Kept), SelectSeq(ls, Deleted) >>

handle_eraser(p) ==
    LET kept == Partition(lines, p, erase_radius)[1]
        deleted_lines == Partition(lines, p, erase_radius)[2]
    IN  /\ lines' = kept
        /\ IF deleted_lines # << >>
           THEN /\ HistRoom(Len(deleted_lines))
                /\ selected_lines' = {}
                /\ undo_stack' = extend_erase(undo_stack, deleted_lines)
           ELSE UNCHANGED << selected_lines, undo_stack >>
        /\ UNCHANGED << current_line, selection_start, selection_current,
                        is_moving_selection, last_mouse_pos, resizing_corner,
                        resize_original_bbox, resize_original_lines >>

(***************************************************************************)
(* WhiteboardApp::undo (lib.rs:194-207)                                    *)
(***************************************************************************)
undo_removing_first ==
    LET r == pop(undo_stack)
    IN  /\ selected_lines' = {}
        /\ undo_stack' = r[2]
        /\ IF ~IsSome(r[1]) THEN lines' = lines
           ELSE IF Unwrap(r[1]).kind = "Erase"
                THEN lines' = Append(lines, Unwrap(r[1]).line)
                ELSE lines' = IF lines = << >> THEN lines ELSE Tail(lines)

undo ==
    LET r == pop(undo_stack)
    IN  /\ selected_lines' = {}
        /\ undo_stack' = r[2]
        /\ IF ~IsSome(r[1]) THEN lines' = lines
           ELSE IF Unwrap(r[1]).kind = "Erase"
                THEN lines' = Append(lines, Unwrap(r[1]).line)
                ELSE lines' = SubSeq(lines, 1, Len(lines) - 1)      \* Vec::pop

(***************************************************************************)
(* WhiteboardApp::get_selection_info (lib.rs:379-406):                     *)
(* None, or Some of [bounding_box, expanded_bbox, corners].                *)
(***************************************************************************)
\* Vec::get of a 0-based index
Exists(ls, i) == i >= 0 /\ i < Len(ls)

RECURSIVE BBoxOf(_, _)
BBoxOf(ls, idxSeq) ==
    IF idxSeq = << >> THEN NOTHING
    ELSE LET rest == BBoxOf(ls, Tail(idxSeq))
         IN  IF Exists(ls, Head(idxSeq))
             THEN ExtendWithAll(rest, ls[Head(idxSeq) + 1].points)
             ELSE rest

get_selection_info(ls, sel) ==
    IF sel = {} THEN None
    ELSE LET bounding_box == BBoxOf(ls, SortDescending(sel))
             expanded_bbox == Expand(bounding_box, EXPAND_MARGIN)
         IN  IF bounding_box = NOTHING THEN None
             ELSE Some([bounding_box |-> bounding_box,
                        expanded_bbox |-> expanded_bbox,
                        corners |-> << expanded_bbox.min,
                                       << expanded_bbox.max[1], expanded_bbox.min[2] >>,
                                       << expanded_bbox.min[1], expanded_bbox.max[2] >>,
                                       expanded_bbox.max >>])

\* Pos2::ZERO, the window's top-left corner.  The side panel lies between it
\* and the canvas (lib.rs:673-706), whose points are written here relative to
\* a point of the canvas: no pointer position of the canvas is near ZERO.
ZERO == << -1000, -1000 >>

\* lib.rs:281-285: the info, or (Rect::NOTHING, Rect::NOTHING, [Pos2::ZERO; 4])
InfoOrDefault(ls, sel) ==
    LET info == get_selection_info(ls, sel)
    IN  IF IsSome(info) THEN Unwrap(info)
        ELSE [bounding_box |-> NOTHING, expanded_bbox |-> NOTHING,
              corners |-> << ZERO, ZERO, ZERO, ZERO >>]

Corners == << "TopLeft", "TopRight", "BottomLeft", "BottomRight" >>

\* The first corner, in the order of lib.rs:294-312, whose hit box holds p
HitCorner(info, p) ==
    LET hits == { k \in 1..4 : RectContains(FromCenterSize(info.corners[k], CORNER_SIZE), p) }
    IN  IF hits = {} THEN None
        ELSE Some(Corners[CHOOSE k \in hits : \A j \in hits : k <= j])

\* WhiteboardApp::start_resizing (lib.rs:456-465)
start_resizing(corner, bbox) ==
    /\ resizing_corner' = Some(corner)
    /\ resize_original_bbox' = Some(bbox)
    /\ resize_original_lines' =
           { << i, lines[i + 1] >> : i \in { j \in selected_lines : Exists(lines, j) } }

StartPhaseMoveFirst(p) ==
    LET info == InfoOrDefault(lines, selected_lines)
    IN  IF RectContains(info.expanded_bbox, p) /\ selected_lines # {} THEN "StartMove"
        ELSE IF selected_lines # {} /\ IsSome(HitCorner(info, p)) THEN "StartResize"
        ELSE "StartMarquee"

\* The branch of lib.rs:294-322 a drag starting at p takes
StartPhase(p) ==
    LET info == InfoOrDefault(lines, selected_lines)
    IN  IF selected_lines # {} /\ IsSome(HitCorner(info, p)) THEN "StartResize"
        ELSE IF RectContains(info.expanded_bbox, p) /\ selected_lines # {} THEN "StartMove"
        ELSE "StartMarquee"

\* handle_selection, response.drag_started() (lib.rs:293-322)
SelectionDragStarted(p) ==
    LET info == InfoOrDefault(lines, selected_lines)
    IN  CASE StartPhase(p) = "StartResize" ->
                /\ start_resizing(Unwrap(HitCorner(info, p)), info.bounding_box)
                /\ UNCHANGED << lines, current_line, undo_stack, selection_start,
                                selection_current, selected_lines, is_moving_selection,
                                last_mouse_pos >>
          [] StartPhase(p) = "StartMove" ->
                /\ is_moving_selection' = TRUE
                /\ last_mouse_pos' = Some(p)
                /\ UNCHANGED << lines, current_line, undo_stack, selection_start,
                                selection_current, selected_lines, resizing_corner,
                                resize_original_bbox, resize_original_lines >>
          [] StartPhase(p) = "StartMarquee" ->
                /\ selected_lines' = {}
                /\ selection_start' = Some(p)
                /\ selection_current' = Some(p)
                /\ UNCHANGED << lines, current_line, undo_stack, is_moving_selection,
                                last_mouse_pos, resizing_corner, resize_original_bbox,
                                resize_original_lines >>

(***************************************************************************)
(* WhiteboardApp::update_resizing (lib.rs:467-512).  A scale factor is the *)
(* fraction << numerator, denominator >>.                                  *)
(***************************************************************************)
\* lib.rs:469-485
NewBBox(orig, p, corner) ==
    CASE corner = "TopLeft" ->
             MkRect(<< p[1] + RESIZE_MARGIN, p[2] + RESIZE_MARGIN >>, orig.max)
      [] corner = "TopRight" ->
             MkRect(<< orig.min[1], p[2] + RESIZE_MARGIN >>,
                    << p[1] - RESIZE_MARGIN, orig.max[2] >>)
      [] corner = "BottomLeft" ->
             MkRect(<< p[1] + RESIZE_MARGIN, orig.min[2] >>,
                    << orig.max[1], p[2] - RESIZE_MARGIN >>)
      [] corner = "BottomRight" ->
             MkRect(orig.min, << p[1] - RESIZE_MARGIN, p[2] - RESIZE_MARGIN >>)

\* lib.rs:487-496
ScaleX(orig, new) == IF Width(orig) > 0 THEN << Width(new), Width(orig) >> ELSE << 1, 1 >>
ScaleY(orig, new) == IF Height(orig) > 0 THEN << Height(new), Height(orig) >> ELSE << 1, 1 >>

RemapFromOrigMin(newMin, origP, origMin, scale) ==
    origMin + ((origP - origMin) * scale[1]) \div scale[2]

\* lib.rs:503-506: new_min + (orig_p - orig_min) * scale
Remap(newMin, origP, origMin, scale) == newMin + ((origP - origMin) * scale[1]) \div scale[2]
RemapExact(origP, origMin, scale) == ((origP - origMin) * scale[1]) % scale[2] = 0

RemapPoint(op, orig, new) ==
    << Remap(new.min[1], op[1], orig.min[1], ScaleX(orig, new)),
       Remap(new.min[2], op[2], orig.min[2], ScaleY(orig, new)) >>

\* lib.rs:500-508: zip stops at the shorter of the line and its snapshot
ZipRemap(points, origPoints, orig, new) ==
    [k \in 1..Len(points) |->
        IF k <= Len(origPoints) THEN RemapPoint(origPoints[k], orig, new) ELSE points[k]]

\* lib.rs:498-510; a snapshot taken with the bounding box NOTHING holds no point
ResizedLines(ls, snapshot, orig, new) ==
    [n \in 1..Len(ls) |->
        IF orig.nothing \/ ~(\E e \in snapshot : e[1] = n - 1) THEN ls[n]
        ELSE LET e == CHOOSE e \in snapshot : e[1] = n - 1
             IN  [ls[n] EXCEPT !.points = ZipRemap(ls[n].points, e[2].points, orig, new)]]

\* The exploration keeps to resizes with integer results
ResizeExact(snapshot, orig, new) ==
    orig.nothing \/
    \A e \in snapshot : \A k \in 1..Len(e[2].points) :
        /\ RemapExact(e[2].points[k][1], orig.min[1], ScaleX(orig, new))
        /\ RemapExact(e[2].points[k][2], orig.min[2], ScaleY(orig, new))

InCoordBound(ls) ==
    \A n \in 1..Len(ls) : \A k \in 1..Len(ls[n].points) :
        Abs(ls[n].points[k][1]) <= CoordBound /\ Abs(ls[n].points[k][2]) <= CoordBound

update_resizing(p, corner) ==
    IF IsSome(resize_original_bbox)
    THEN LET orig == Unwrap(resize_original_bbox)
             new == NewBBox(orig, p, corner)
         IN  /\ ResizeExact(resize_original_lines, orig, new)
             /\ lines' = ResizedLines(lines, resize_original_lines, orig, new)
             /\ InCoordBound(lines')
    ELSE lines' = lines

\* lib.rs:327-337
Translate(line, delta) ==
    [line EXCEPT !.points = [k \in 1..Len(line.points) |->
        << line.points[k][1] + delta[1], line.points[k][2] + delta[2] >>]]

MovedLines(ls, sel, delta) ==
    [n \in 1..Len(ls) |-> IF (n - 1) \in sel THEN Translate(ls[n], delta) ELSE ls[n]]

\* handle_selection, response.dragged() (lib.rs:323-340)
SelectionDragged(p) ==
    IF IsSome(resizing_corner)
    THEN /\ update_resizing(p, Unwrap(resizing_corner))
         /\ UNCHANGED << current_line, undo_stack, selVars >>
    ELSE IF is_moving_selection
    THEN IF IsSome(last_mouse_pos)
         THEN LET last_pos == Unwrap(last_mouse_pos)
                  delta == << p[1] - last_pos[1], p[2] - last_pos[2] >>
              IN  /\ lines' = MovedLines(lines, selected_lines, delta)
                  /\ InCoordBound(lines')
                  /\ last_mouse_pos' = Some(p)
                  /\ UNCHANGED << current_line, undo_stack, selection_start,
                                  selection_current, selected_lines, is_moving_selection,
                                  resizing_corner, resize_original_bbox,
                                  resize_original_lines >>
         ELSE UNCHANGED << lines, current_line, undo_stack, selVars >>
    ELSE IF IsSome(selection_start)
    THEN /\ selection_current' = Some(p)
         /\ UNCHANGED << lines, current_line, undo_stack, selection_start, selected_lines,
                         is_moving_selection, last_mouse_pos, resizing_corner,
                         resize_original_bbox, resize_original_lines >>
    ELSE UNCHANGED << lines, current_line, undo_stack, selVars >>

\* lib.rs:352-366: the strokes whose bounding box intersects the marquee
MarqueeHits(ls, start, current) ==
    { i \in 0..(Len(ls) - 1) : RectIntersects(FromTwoPos(start, current), LineBBox(ls[i + 1])) }

\* handle_selection, response.drag_stopped() (lib.rs:341-369)
SelectionDragStopped ==
    IF IsSome(resizing_corner)
    THEN /\ resizing_corner' = None
         /\ resize_original_bbox' = None
         /\ resize_original_lines' = {}
         /\ UNCHANGED << lines, current_line, undo_stack, selection_start,
                         selection_current, selected_lines, is_moving_selection,
                         last_mouse_pos >>
    ELSE IF is_moving_selection
    THEN /\ is_moving_selection' = FALSE
         /\ last_mouse_pos' = None
         /\ UNCHANGED << lines, current_line, undo_stack, selection_start,
                         selection_current, selected_lines, resizing_corner,
                         resize_original_bbox, resize_original_lines >>
    ELSE IF IsSome(selection_start) /\ IsSome(selection_current)
    THEN /\ selected_lines' =
                MarqueeHits(lines, Unwrap(selection_start), Unwrap(selection_current))
         /\ selection_start' = None
         /\ selection_current' = None
         /\ UNCHANGED << lines, current_line, undo_stack, is_moving_selection,
                         last_mouse_pos, resizing_corner, resize_original_bbox,
                         resize_original_lines >>
    ELSE UNCHANGED << lines, current_line, undo_stack, selVars >>

(***************************************************************************)
(* The canvas response (lib.rs:704-737).  The painter is allocated with    *)
(* Sense::drag(), so a press starts a drag at once and the response never  *)
(* reports clicked(): a frame of a gesture is its first (drag_started and  *)
(* dragged), a later one (dragged) or its last (drag_stopped).             *)
(***************************************************************************)
\* What the tool's handler did with a drag frame, for the history variables
ErasedBy(p) == Partition(lines, p, erase_radius)[2]

DragOutcome(started, p) ==
    CASE current_tool = "Brush" -> "BrushSample"
      [] current_tool = "Eraser" -> "Eraser"
      [] current_tool = "Selection" ->
            IF started THEN StartPhase(p)
            ELSE IF IsSome(resizing_corner) THEN "Resize"
            ELSE IF is_moving_selection THEN "Move"
            ELSE IF IsSome(selection_start) THEN "Marquee"
            ELSE "Idle"

DragBatch(p) ==
    IF current_tool = "Eraser" /\ ErasedBy(p) # << >>
    THEN NewBatch(lines', ErasedBy(p))
    ELSE None

PointerDragStarted(p) ==
    /\ ~panicked /\ ~dragging
    /\ dragging' = TRUE
    /\ CASE current_tool = "Brush" -> BrushDragged(p)
         [] current_tool = "Eraser" -> handle_eraser(p)
         [] current_tool = "Selection" -> SelectionDragStarted(p)
    /\ UNCHANGED << palette, stroke_width, current_tool, whiteboard_file, fs >>
    /\ Rendered
    /\ last' = Event(DragOutcome(TRUE, p), Some(p))
    /\ batch' = DragBatch(p)
    /\ escaped' = FALSE
    /\ moved_from' = IF DragOutcome(TRUE, p) = "StartMove"
                     THEN Some([p0 |-> p, pn |-> p, lines |-> lines])
                     ELSE None

PointerDragged(p) ==
    /\ ~panicked /\ dragging
    /\ dragging' = TRUE
    /\ CASE current_tool = "Brush" -> BrushDragged(p)
         [] current_tool = "Eraser" -> handle_eraser(p)
         [] current_tool = "Selection" -> SelectionDragged(p)
    /\ UNCHANGED << palette, stroke_width, current_tool, whiteboard_file, fs >>
    /\ Rendered
    /\ last' = Event(DragOutcome(FALSE, p), Some(p))
    /\ batch' = DragBatch(p)
    /\ UNCHANGED escaped
    /\ moved_from' = IF IsSome(moved_from)
                     THEN Some([Unwrap(moved_from) EXCEPT !.pn = p])
                     ELSE None

StopOutcome ==
    IF current_tool = "Selection"
    THEN (IF IsSome(resizing_corner) THEN "StopResize"
          ELSE IF is_moving_selection THEN "StopMove"
          ELSE IF IsSome(selection_start) /\ IsSome(selection_current) THEN "StopMarquee"
          ELSE "StopIdle")
    ELSE IF ~ShouldCommit THEN "StopIdle"
    ELSE IF CurrentColorPanics(palette) THEN "CommitPanic"
    ELSE "Commit"

\* The last frame of a gesture: the tool's drag_stopped handling, then the brush
\* commit of lib.rs:732-737
PointerDragStopped ==
    /\ ~panicked /\ dragging
    /\ dragging' = FALSE
    /\ UNCHANGED << palette, stroke_width, current_tool, whiteboard_file, fs >>
    /\ IF current_tool = "Selection"
       THEN SelectionDragStopped /\ Rendered
       ELSE IF ~ShouldCommit
       THEN UNCHANGED << lines, current_line, undo_stack, selVars >> /\ Rendered
       ELSE IF CurrentColorPanics(palette)
       THEN UNCHANGED << lines, current_line, undo_stack, selVars >> /\ panicked' = TRUE
       ELSE push_line /\ UNCHANGED selVars /\ Rendered
    /\ last' = Event(StopOutcome, None)
    /\ batch' = None
    /\ escaped' = FALSE
    /\ moved_from' = None

(***************************************************************************)
(* WhiteboardApp::handle_keyboard_event (lib.rs:67-193), one key press.    *)
(***************************************************************************)
Key(name, body) ==
    /\ ~panicked
    /\ body
    /\ UNCHANGED << dragging, fs, whiteboard_file, stroke_width >>
    /\ Rendered
    /\ last' = Event(name, None)
    /\ escaped' = (escaped \/ (name = "KeyEscape" /\ dragging))
    /\ UNCHANGED moved_from

\* Ctrl/Cmd+Z
UndoOutcome ==
    IF undo_stack = << >> THEN "UndoNone"
    ELSE IF undo_stack[Len(undo_stack)].kind = "Erase" THEN "UndoErase"
    ELSE "UndoDraw"

KeyUndo ==
    Key(UndoOutcome,
        /\ UndoRoom
        /\ undo
        /\ batch' = UndoneBatch
        /\ UNCHANGED << current_line, palette, current_tool, selection_start,
                        selection_current, is_moving_selection, last_mouse_pos,
                        resizing_corner, resize_original_bbox, resize_original_lines >>)

\* C
KeyClear ==
    Key("KeyClear",
        /\ lines' = << >>
        /\ batch' = None
        /\ selected_lines' = {}
        /\ UNCHANGED << current_line, palette, current_tool, undo_stack, selection_start,
                        selection_current, is_moving_selection, last_mouse_pos,
                        resizing_corner, resize_original_bbox, resize_original_lines >>)

\* B
KeyBrush ==
    Key("KeyBrush",
        /\ current_tool' = "Brush"
        /\ batch' = None
        /\ UNCHANGED << lines, current_line, palette, undo_stack, selVars >>)

\* E
KeyEraser ==
    Key("KeyEraser",
        /\ current_tool' = "Eraser"
        /\ batch' = None
        /\ UNCHANGED << lines, current_line, palette, undo_stack, selVars >>)

ClearSelectionOnly ==
    /\ selected_lines' = {}
    /\ UNCHANGED << selection_start, selection_current, is_moving_selection,
                    resizing_corner, resize_original_bbox, resize_original_lines,
                    last_mouse_pos >>

\* lib.rs:95-101 and 164-170
ClearSelectionSession ==
    /\ selected_lines' = {}
    /\ selection_start' = None
    /\ selection_current' = None
    /\ is_moving_selection' = FALSE
    /\ resizing_corner' = None
    /\ resize_original_bbox' = None
    /\ resize_original_lines' = {}
    /\ UNCHANGED last_mouse_pos

\* S
KeySelection ==
    Key("KeySelection",
        /\ batch' = None
        /\ IF current_tool # "Selection"
           THEN ClearSelectionSession /\ current_tool' = "Selection"
           ELSE UNCHANGED << selVars, current_tool >>
        /\ UNCHANGED << lines, current_line, palette, undo_stack >>)

\* 1..9
KeyNum(i) ==
    Key("KeyNum",
        /\ batch' = None
        /\ palette' = set_active_color_index(palette, i)
        /\ UNCHANGED << lines, current_line, current_tool, undo_stack, selVars >>)

\* lib.rs:148-153: Vec::remove at each index, largest first, inside the Vec
RECURSIVE RemoveEach(_, _, _)
RemoveEach(ls, indices, deleted) ==
    IF indices = << >> THEN << ls, deleted >>
    ELSE IF Head(indices) < Len(ls)
         THEN RemoveEach(RemoveAt(ls, Head(indices)), Tail(indices),
                         Append(deleted, ls[Head(indices) + 1]))
         ELSE RemoveEach(ls, Tail(indices), deleted)

DeleteSelected(ls, sel) == RemoveEach(ls, SortDescending(sel), << >>)

\* Delete
KeyDelete ==
    Key(IF selected_lines # {} THEN "Delete" ELSE "DeleteNone",
        /\ IF selected_lines # {}
           THEN LET r == DeleteSelected(lines, selected_lines)
                IN  /\ HistRoom(Len(r[2]))
                    /\ lines' = r[1]
                    /\ undo_stack' = extend_erase(undo_stack, r[2])
                    /\ selected_lines' = {}
                    /\ batch' = IF r[2] # << >> THEN NewBatch(r[1], r[2]) ELSE None
           ELSE UNCHANGED << lines, undo_stack, selected_lines >> /\ batch' = None
        /\ UNCHANGED << current_line, palette, current_tool, selection_start,
                        selection_current, is_moving_selection, last_mouse_pos,
                        resizing_corner, resize_original_bbox, resize_original_lines >>)

\* Escape
KeyEscape ==
    Key("KeyEscape",
        /\ batch' = None
        /\ ClearSelectionSession
        /\ UNCHANGED << lines, current_line, palette, current_tool, undo_stack >>)

(***************************************************************************)
(* The persistence codec (state.rs) and the file operations                *)
(* (lib.rs:208-277).                                                       *)
(***************************************************************************)
\* impl From<Color32> for Color: the four stored bytes (state.rs:26-37)
ColorFrom(c32) == << c32[1], c32[2], c32[3], c32[4] >>

\* Color32::from_rgba_unmultiplied: the color channels are multiplied by alpha
Premultiply(c, a) == (c * a + 127) \div 255
from_rgba_unmultiplied(r, g, b, a) ==
    IF a = 255 THEN << r, g, b, 255 >>
    ELSE IF a = 0 THEN << 0, 0, 0, 0 >>
    ELSE << Premultiply(r, a), Premultiply(g, a), Premultiply(b, a), a >>

\* impl From<Color> for Color32 (state.rs:39-45)
Color32From(color) == from_rgba_unmultiplied(color[1], color[2], color[3], color[4])

\* impl From<&Pos2> for Pos, impl From<&Pos> for Pos2 (state.rs:11-25)
PosFrom(p) == [x |-> p[1], y |-> p[2]]
Pos2From(pos) == << pos.x, pos.y >>

\* impl From<&Line> for LineState (state.rs:52-60)
LineStateFrom(line) ==
    [points |-> [k \in 1..Len(line.points) |-> PosFrom(line.points[k])],
     color |-> ColorFrom(line.color),
     width |-> line.width]

\* impl From<&LineState> for Line (state.rs:61-69)
LineFrom(state) ==
    [points |-> [k \in 1..Len(state.points) |-> Pos2From(state.points[k])],
     color |-> Color32From(state.color),
     width |-> state.width]

\* WhiteboardState::new and serde_json::to_string (state.rs:75-87, lib.rs:228-229)
Serialize(ls, pal) ==
    Document([n \in 1..Len(ls) |-> LineStateFrom(ls[n])],
             [n \in 1..Len(pal.colors) |-> ColorFrom(pal.colors[n])])

\* lib.rs:255-261: the canvas and the palette a document loads as
LoadedLines(doc) == [n \in 1..Len(doc.lines) |-> LineFrom(doc.lines[n])]
LoadedPalette(doc) == PaletteFrom([n \in 1..Len(doc.palette) |-> Color32From(doc.palette[n])])

\* WhiteboardApp::write_whiteboard (lib.rs:208-221); std::fs::write may fail
write_whiteboard(file_path, json, ok) ==
    IF ok
    THEN /\ fs' = [fs EXCEPT ![file_path] = json]
         /\ whiteboard_file' = IF whiteboard_file = None THEN Some(file_path)
                               ELSE whiteboard_file
    ELSE UNCHANGED << fs, whiteboard_file >>

\* Ctrl/Cmd+S: WhiteboardApp::save_whiteboard (lib.rs:222-243).  picked is the
\* save dialog's answer, read only when no file is associated yet.
KeySave(picked, ok) ==
    /\ ~panicked
    /\ LET json == Serialize(lines, palette)
       IN  IF IsSome(whiteboard_file)
           THEN write_whiteboard(Unwrap(whiteboard_file), json, ok)
           ELSE IF IsSome(picked)
           THEN write_whiteboard(Unwrap(picked), json, ok)
           ELSE UNCHANGED << fs, whiteboard_file >>
    /\ UNCHANGED << lines, current_line, palette, stroke_width, current_tool, undo_stack,
                    selVars, dragging >>
    /\ Rendered
    /\ last' = Event(IF fs' # fs \/ (ok /\ (IsSome(whiteboard_file) \/ IsSome(picked)))
                     THEN "Saved" ELSE "NotSaved", None)
    /\ batch' = None
    /\ UNCHANGED << escaped, moved_from >>

open_whiteboard_file_associating_first(picked) ==
    IF ~IsSome(picked) THEN UNCHANGED << whiteboard_file, palette, lines >>
    ELSE LET file_path == Unwrap(picked)
             json == fs[file_path]
         IN  /\ whiteboard_file' = Some(file_path)
             /\ IF json.kind = "document"
                THEN palette' = LoadedPalette(json) /\ lines' = LoadedLines(json)
                ELSE UNCHANGED << palette, lines >>

\* WhiteboardApp::open_whiteboard_file (lib.rs:244-277)
open_whiteboard_file(picked) ==
    IF ~IsSome(picked) THEN UNCHANGED << whiteboard_file, palette, lines >>
    ELSE LET file_path == Unwrap(picked)
             json == fs[file_path]
         IN  IF json.kind = "missing"                       \* read_to_string fails
             THEN UNCHANGED << whiteboard_file, palette, lines >>
             ELSE IF json.kind = "document"                 \* serde_json::from_str is Ok
             THEN /\ whiteboard_file' = Some(file_path)
                  /\ palette' = LoadedPalette(json)
                  /\ lines' = LoadedLines(json)
             ELSE UNCHANGED << whiteboard_file, palette, lines >>

OpenOutcome(picked) ==
    IF ~IsSome(picked) THEN "OpenCancelled"
    ELSE IF fs[Unwrap(picked)].kind = "missing" THEN "OpenReadFailed"
    ELSE IF fs[Unwrap(picked)].kind = "document" THEN "Opened"
    ELSE "OpenInvalid"

\* Ctrl/Cmd+O; picked is the open dialog's answer
KeyOpen(picked) ==
    /\ ~panicked
    /\ open_whiteboard_file(picked)
    /\ UNCHANGED << current_line, stroke_width, current_tool, undo_stack, selVars,
                    dragging, fs >>
    /\ Rendered
    /\ last' = Event(OpenOutcome(picked), None)
    /\ batch' = None
    /\ UNCHANGED << escaped, moved_from >>

\* Another program replaces or removes a file
FileContents == { Missing, Garbage }
ExternalWrite(path, contents) ==
    /\ ~panicked
    /\ fs[path] # contents
    /\ fs' = [fs EXCEPT ![path] = contents]
    /\ UNCHANGED << appVars, selVars, dragging, panicked >>
    /\ last' = Event("ExternalWrite", None)
    /\ batch' = None
    /\ UNCHANGED << escaped, moved_from >>

(***************************************************************************)
(* The side panel (lib.rs:673-701, colors.rs:26-134).  Its widgets are     *)
(* clicked with the pointer, so not while the canvas is being dragged.     *)
(***************************************************************************)
Panel(name, body) ==
    /\ ~panicked /\ ~dragging
    /\ UNCHANGED << dragging, fs, whiteboard_file, undo_stack, current_line, selVars >>
    /\ body
    /\ last' = Event(name, None)
    /\ batch' = None
    /\ UNCHANGED << escaped, moved_from >>

\* WhiteboardApp::draw_tool_bar (lib.rs:605-632)
ToolButton(tool) ==
    Panel("ToolButton",
          /\ current_tool # tool
          /\ current_tool' = tool
          /\ UNCHANGED << lines, palette, stroke_width >>
          /\ Rendered)

\* The Clear button (lib.rs:698-700)
ClearButton ==
    Panel("ClearButton",
          /\ lines' = << >>
          /\ UNCHANGED << current_tool, palette, stroke_width >>
          /\ Rendered)

\* The stroke width slider (lib.rs:691-694)
WidthSlider(w) ==
    Panel("WidthSlider",
          /\ stroke_width # w
          /\ stroke_width' = w
          /\ UNCHANGED << lines, current_tool, palette >>
          /\ Rendered)

\* A click on palette slot i, which is not the active one (colors.rs:79-81)
PaletteClick(i) ==
    Panel("PaletteClick",
          /\ current_tool = "Brush"
          /\ i < Len(palette.colors) /\ i # palette.active_color_index
          /\ palette' = [palette EXCEPT !.active_color_index = i]
          /\ UNCHANGED << lines, current_tool, stroke_width >>
          /\ Rendered)

\* The color picker of the active slot (colors.rs:45-46)
PaletteEdit(c) ==
    Panel("PaletteEdit",
          /\ current_tool = "Brush"
          /\ palette.active_color_index < Len(palette.colors)
          /\ palette.colors[palette.active_color_index + 1] # c
          /\ palette' = [palette EXCEPT !.colors[palette.active_color_index + 1] = c]
          /\ UNCHANGED << lines, current_tool, stroke_width >>
          /\ Rendered)

\* The add-color button (colors.rs:128-131)
PaletteAdd ==
    Panel("PaletteAdd",
          /\ current_tool = "Brush"
          /\ Len(palette.colors) < MaxPalette
          /\ UNCHANGED << lines, current_tool, stroke_width >>
          /\ IF CurrentColorPanics(palette)
             THEN UNCHANGED palette /\ panicked' = TRUE
             ELSE /\ palette' = [colors |-> Append(palette.colors, get_current_color(palette)),
                                 active_color_index |-> Len(palette.colors)]
                  /\ Rendered)

(***************************************************************************)
(* The specifications.  Every one runs the same handlers; they differ in   *)
(* the events and inputs explored.                                         *)
(***************************************************************************)
Tools == { "Brush", "Eraser", "Selection" }
Picked == { None } \cup { Some(f) : f \in Paths }

\* Where the pointer goes with each tool
PosOf(tool) ==
    CASE tool = "Brush" -> BrushPos
      [] tool = "Eraser" -> ErasePos
      [] tool = "Selection" -> SelectPos

\* Canvas editing: the pointer with every tool, the editing keys, the tool bar
Next ==
    \/ \E p \in PosOf(current_tool) : PointerDragStarted(p)
    \/ \E p \in PosOf(current_tool) : PointerDragged(p)
    \/ PointerDragStopped
    \/ KeyUndo
    \/ KeyClear
    \/ KeyDelete
    \/ \E t \in Tools : ToolButton(t)
    \/ ClearButton

Spec == Init /\ [][Next]_vars

\* A full history.  The program starts here after 99 or 100 prefill strokes and
\* the C key, or after opening, as its first act, a document of 101 strokes.
OpenedLines == [i \in 1..(MAX_UNDO_STACK_SIZE + 1) |-> PrefillLine]
InitOpened ==
    /\ lines = OpenedLines
    /\ current_line = << >>
    /\ palette = LoadedPalette(Serialize(OpenedLines, DefaultPalette))
    /\ stroke_width = DEFAULT_STROKE_WIDTH
    /\ current_tool = "Brush"
    /\ undo_stack = << >>
    /\ whiteboard_file = Some("a.wb")
    /\ selection_start = None
    /\ selection_current = None
    /\ selected_lines = {}
    /\ is_moving_selection = FALSE
    /\ last_mouse_pos = None
    /\ resizing_corner = None
    /\ resize_original_bbox = None
    /\ resize_original_lines = {}
    /\ dragging = FALSE
    /\ fs = [p \in Paths |-> Serialize(OpenedLines, DefaultPalette)]
    /\ panicked = FALSE
    /\ last = Event("Opened", None)
    /\ batch = None
    /\ escaped = FALSE
    /\ moved_from = None

InitFull ==
    \/ \E k \in { MAX_UNDO_STACK_SIZE - 1, MAX_UNDO_STACK_SIZE } : InitWith(Prefill(k))
    \/ InitOpened

NextFull ==
    \/ \E p \in (IF current_tool = "Eraser" THEN FullPos ELSE PosOf(current_tool)) :
           PointerDragStarted(p)
    \/ \E p \in (IF current_tool = "Eraser" THEN FullPos ELSE PosOf(current_tool)) :
           PointerDragged(p)
    \/ PointerDragStopped
    \/ KeyUndo
    \/ KeyDelete
    \/ \E t \in Tools : ToolButton(t)

SpecFull == InitFull /\ [][NextFull]_vars

\* Selection geometry: drawing, marquee, move and resize over a finer grid
NextGeom ==
    \/ \E p \in (IF current_tool = "Brush" THEN BrushPos ELSE GeomPos) :
           (current_tool = "Brush" => Len(lines) < GeomLines) /\ PointerDragStarted(p)
    \/ \E p \in (IF current_tool = "Brush" THEN BrushPos ELSE GeomPos) : PointerDragged(p)
    \/ PointerDragStopped
    \/ \E t \in { "Brush", "Selection" } : ToolButton(t)

SpecGeom == Init /\ [][NextGeom]_vars

\* Documents and the palette: one-stroke canvases, colours, selection, save and open
NextFile ==
    \/ \E p \in PosOf(current_tool) :
           (current_tool = "Brush" => undo_stack = << >>) /\ PointerDragStarted(p)
    \/ \E p \in PosOf(current_tool) : PointerDragged(p)
    \/ PointerDragStopped
    \/ \E t \in { "Brush", "Selection" } : ToolButton(t)
    \/ \E i \in { 0, 1 } : KeyNum(i)
    \/ \E f \in Picked, ok \in BOOLEAN : KeySave(f, ok)
    \/ \E f \in Picked : KeyOpen(f)
    \/ \E f \in Paths, c \in FileContents : ExternalWrite(f, c)
    \/ \E c \in PickColors : PaletteEdit(c)

SpecFile == Init /\ [][NextFile]_vars

\* The tool keys and Escape, pressed also in the middle of a gesture, and the tool bar
NextTools ==
    \/ \E p \in PosOf(current_tool) :
           (current_tool = "Brush" => undo_stack = << >>) /\ PointerDragStarted(p)
    \/ \E p \in PosOf(current_tool) : PointerDragged(p)
    \/ PointerDragStopped
    \/ KeyBrush
    \/ KeyEraser
    \/ KeySelection
    \/ KeyEscape
    \/ \E t \in Tools : ToolButton(t)

SpecTools == Init /\ [][NextTools]_vars

\* Selection gestures over the finer grid with key presses in their middle
NextGesture ==
    \/ \E p \in (IF current_tool = "Brush" THEN BrushPos ELSE GeomPos) :
           (current_tool = "Brush" => undo_stack = << >>) /\ PointerDragStarted(p)
    \/ \E p \in (IF current_tool = "Brush" THEN BrushPos ELSE GeomPos) : PointerDragged(p)
    \/ PointerDragStopped
    \/ \E t \in { "Brush", "Selection" } : ToolButton(t)
    \/ KeyUndo
    \/ KeyClear
    \/ KeyDelete
    \/ KeyEscape

SpecGesture == Init /\ [][NextGesture]_vars

\* The eraser under the width slider: one stroke drawn, the slider moved, the
\* eraser passed over it
NextSliderErase ==
    \/ \E p \in (IF current_tool = "Brush" THEN BrushPos ELSE SliderErasePos) :
           (current_tool = "Brush" => undo_stack = << >>) /\ PointerDragStarted(p)
    \/ \E p \in (IF current_tool = "Brush" THEN BrushPos ELSE SliderErasePos) :
           PointerDragged(p)
    \/ PointerDragStopped
    \/ \E t \in { "Brush", "Eraser" } : ToolButton(t)
    \/ \E w \in SliderWidths : WidthSlider(w)
    \/ KeyUndo

SpecSliderErase == Init /\ [][NextSliderErase]_vars

\* Undo and Delete over a one-stroke canvas that was drawn or opened from a file
NextReopen ==
    \/ \E p \in (IF current_tool = "Brush" THEN BrushPos ELSE { << 5, 5 >> }) :
           (current_tool = "Brush" =>
                undo_stack = << >> /\ lines = << >> /\ whiteboard_file = None)
           /\ PointerDragStarted(p)
    \/ \E p \in (IF current_tool = "Brush" THEN BrushPos ELSE { << 5, 5 >> }) :
           PointerDragged(p)
    \/ PointerDragStopped
    \/ \E t \in { "Brush", "Selection" } : ToolButton(t)
    \/ \E f \in Picked : whiteboard_file = None /\ KeySave(f, TRUE)
    \/ \E f \in Picked : lines = << >> /\ undo_stack = << >> /\ KeyOpen(f)
    \/ KeyUndo
    \/ KeyDelete

SpecReopen == Init /\ [][NextReopen]_vars

\* Resize gestures over one stroke, with presses on a handle's center and off it
NextResize ==
    \/ \E p \in (IF current_tool = "Brush" THEN BrushPos ELSE ResizePos) :
           (current_tool = "Brush" => undo_stack = << >>) /\ PointerDragStarted(p)
    \/ \E p \in (IF current_tool = "Brush" THEN BrushPos ELSE ResizePos) :
           PointerDragged(p)
    \/ PointerDragStopped
    \/ \E t \in { "Brush", "Selection" } : ToolButton(t)

SpecResize == Init /\ [][NextResize]_vars

\* The palette and the width slider
NextPalette ==
    \/ \E p \in BrushPos :
           (current_tool = "Brush" => undo_stack = << >>) /\ PointerDragStarted(p)
    \/ \E p \in BrushPos : PointerDragged(p)
    \/ PointerDragStopped
    \/ \E w \in SliderWidths : WidthSlider(w)
    \/ \E i \in DigitIndices : KeyNum(i)
    \/ \E i \in 0..(MaxPalette - 1) : PaletteClick(i)
    \/ \E c \in PickColors : PaletteEdit(c)
    \/ PaletteAdd

SpecPalette == Init /\ [][NextPalette]_vars
(***************************************************************************)
(* The claims.  An event of the program is recognised in a step by the     *)
(* tag it leaves in last.                                                  *)
(***************************************************************************)
Stepped(tag) == last'.ev = tag /\ vars' # vars

\* The last n entries of a sequence
LastN(seq, n) == SubSeq(seq, Len(seq) - n + 1, Len(seq))

\* C1: after any sequence of brush commits, eraser batches, Delete batches
\* and undos the undo history holds at most 100 entries.
C1_HistoryAtMost100 == Len(undo_stack) <= MAX_UNDO_STACK_SIZE

\* C2: a brush drag that stops with an in-progress line of exactly 1 point adds
\* no stroke and pushes no undo entry; one that stops with 2 or more points
\* appends exactly one stroke and pushes exactly one Draw entry; so no stroke of
\* the canvas has fewer than 2 points.
C2_BrushStop == dragging /\ ~dragging' /\ current_tool = "Brush" /\ vars' # vars

C2_CommitRule ==
    [][ /\ C2_BrushStop /\ Len(current_line) = 1
            => lines' = lines /\ undo_stack' = undo_stack
        /\ C2_BrushStop /\ Len(current_line) >= 2
            => /\ lines' = Append(lines, lines'[Len(lines')])
               /\ lines'[Len(lines')].points = current_line
               /\ undo_stack' = Append(undo_stack, Draw(lines'[Len(lines')]))
        /\ \A n \in 1..Len(lines') : Len(lines'[n].points) >= 2 ]_vars

\* C3: in every reachable state, saving and then opening the saved document
\* yields a canvas and a palette equal to the ones saved: stroke order, point
\* order, widths and all four color bytes of every stroke and palette slot,
\* colors of alpha below 255 included.
C3_RoundTrip ==
    /\ LoadedLines(Serialize(lines, palette)) = lines
    /\ LoadedPalette(Serialize(lines, palette)).colors = palette.colors

\* C4: Delete with a non-empty selection S removes exactly the strokes at the
\* indices in S, keeps the other strokes in their order, pushes exactly |S|
\* Erase entries, one per removed stroke, and leaves the selection empty.
C4_Kept == SelectSeq([n \in 1..Len(lines) |-> << n - 1, lines[n] >>],
                     LAMBDA e : e[1] \notin selected_lines)

C4_DeleteExact ==
    [][ Stepped("Delete") =>
          LET n == Cardinality(selected_lines)
          IN  /\ lines' = [k \in 1..Len(C4_Kept) |-> C4_Kept[k][2]]
              /\ Len(undo_stack') = Len(undo_stack) + n
              /\ SubSeq(undo_stack', 1, Len(undo_stack)) = undo_stack
              /\ \A i \in selected_lines :
                     i < Len(lines) /\
                     \E k \in 1..n : LastN(undo_stack', n)[k] = Erase(lines[i + 1])
              /\ selected_lines' = {} ]_vars

\* C5: an undo whose popped entry is Draw removes exactly one stroke, the last
\* of the canvas, and leaves the others and their order unchanged; an undo right
\* after a brush commit restores the canvas of before the commit.
C5_UndoDrawRemovesLast ==
    [][ Stepped("UndoDraw") =>
          /\ Len(lines') = Len(lines) - 1
          /\ lines' = SubSeq(lines, 1, Len(lines) - 1) ]_vars

\* C5, amended: an undo whose popped entry is Draw removes the last stroke of a
\* non-empty canvas and leaves the others and their order unchanged, and leaves
\* an empty canvas empty; an undo right after a brush commit restores the canvas
\* of before the commit.
C5_UndoDrawRemovesLastIfAny ==
    [][ Stepped("UndoDraw") =>
          /\ lines # << >> => lines = Append(lines', lines[Len(lines)])
          /\ lines = << >> => lines' = << >>
          /\ last.ev = "Commit" => lines = Append(lines', undo_stack[Len(undo_stack)].line)
      ]_vars

\* C5's case: a Draw entry was just popped from under a canvas of two strokes
C5_Witness == last.ev = "UndoDraw" /\ Len(lines) = 1 /\ Len(undo_stack) = 1

\* C6: after an erase batch (an eraser hit or Delete) that removed N strokes, N
\* undos with nothing in between yield the canvas of after the erasure followed
\* by exactly the N erased strokes, each restored once and unchanged, however
\* full the undo history was before the batch.
C6_Count(seq, x) == Cardinality({ i \in 1..Len(seq) : seq[i] = x })
C6_SameStrokes(a, b) ==
    /\ Len(a) = Len(b)
    /\ \A x \in Range(a) \cup Range(b) : C6_Count(a, x) = C6_Count(b, x)
C6_Restored(b) ==
    /\ Len(lines) = Len(b.post) + Len(b.erased)
    /\ SubSeq(lines, 1, Len(b.post)) = b.post
    /\ C6_SameStrokes(SubSeq(lines, Len(b.post) + 1, Len(lines)), b.erased)

C6_BatchUndone ==
    (IsSome(batch) /\ Unwrap(batch).undone = Len(Unwrap(batch).erased))
        => C6_Restored(Unwrap(batch))

\* C6, amended: after an erase batch that removed N strokes, N at most 100, N
\* undos with nothing in between yield the canvas of after the erasure followed
\* by exactly the N erased strokes, each restored once and unchanged, however
\* full the undo history was before the batch.
C6_BatchUndoneUpTo100 ==
    (/\ IsSome(batch)
     /\ Unwrap(batch).undone = Len(Unwrap(batch).erased)
     /\ Len(Unwrap(batch).erased) <= MAX_UNDO_STACK_SIZE)
        => C6_Restored(Unwrap(batch))

\* C6's case: a batch of two strokes, erased under a full history, is undone
C6_Witness ==
    /\ IsSome(batch)
    /\ Len(Unwrap(batch).erased) = 2
    /\ Unwrap(batch).undone = 2
    /\ Len(undo_stack) = MAX_UNDO_STACK_SIZE - 1

\* C7: one eraser event at pointer p with erase radius R removes every stroke
\* with a segment whose distance from p is within R, and no stroke all of whose
\* segments are farther than R.
C7_Within(line, p, r) ==
    \E k \in 1..(Len(line.points) - 1) :
        LET d == distance_point_to_segment_sq(p, line.points[k], line.points[k + 1])
        IN  d[1] <= r * r * d[2]
C7_Below(line, p, r) ==
    \E k \in 1..(Len(line.points) - 1) :
        LET d == distance_point_to_segment_sq(p, line.points[k], line.points[k + 1])
        IN  d[1] < r * r * d[2]

C7_EraserWithinRadius ==
    [][ Stepped("Eraser") =>
          LET Far(line) == ~C7_Within(line, Unwrap(last'.p), erase_radius)
          IN  lines' = SelectSeq(lines, Far) ]_vars

\* C7, amended: one eraser event at pointer p with erase radius R removes every
\* stroke with a segment whose distance from p is less than R, and no stroke all
\* of whose segments are at distance R or farther.
C7_EraserBelowRadius ==
    [][ Stepped("Eraser") =>
          LET Far(line) == ~C7_Below(line, Unwrap(last'.p), erase_radius)
          IN  lines' = SelectSeq(lines, Far) ]_vars

\* C7's case: an eraser event left a stroke whose nearest segment is at distance
\* exactly R from the pointer
C7_Witness ==
    /\ last.ev = "Eraser"
    /\ \E n \in 1..Len(lines) :
           /\ C7_Within(lines[n], Unwrap(last.p), erase_radius)
           /\ ~C7_Below(lines[n], Unwrap(last.p), erase_radius)

\* C8: when a marquee drag stops, the selection becomes exactly the set of the
\* indices of the strokes whose point bounding box intersects the rectangle
\* spanned by the drag-start and drag-current anchors, partial overlap
\* included; no other index is selected.
C8_Coords(line, axis) == { line.points[k][axis] : k \in 1..Len(line.points) }
C8_Overlaps(line, a, b, axis) ==
    /\ \E c \in C8_Coords(line, axis) : c >= Min2(a[axis], b[axis])
    /\ \E c \in C8_Coords(line, axis) : c <= Max2(a[axis], b[axis])

C9_MovesMin(corner, axis) ==
    IF axis = 1 THEN corner \in { "TopLeft", "BottomLeft" }
    ELSE corner \in { "TopLeft", "TopRight" }
C9_Anchor(orig, corner, axis) ==
    IF C9_MovesMin(corner, axis) THEN orig.max[axis] ELSE orig.min[axis]
C9_Dragged(orig, corner, axis) ==
    IF C9_MovesMin(corner, axis) THEN orig.min[axis] ELSE orig.max[axis]
C9_Handle(p, corner, axis) ==
    IF C9_MovesMin(corner, axis) THEN p[axis] + RESIZE_MARGIN ELSE p[axis] - RESIZE_MARGIN
\* The snapshotted strokes with their places in the canvas after the step
C9_Snapshot == { e \in resize_original_lines : e[1] < Len(lines') }
C9_ResizeStep == Stepped("Resize") /\ IsSome(resize_original_bbox)

C9_ScaledFromAnchor ==
    [][ C9_ResizeStep =>
          LET orig == Unwrap(resize_original_bbox)
              corner == Unwrap(resizing_corner)
              p == Unwrap(last'.p)
          IN  \A e \in C9_Snapshot : \A k \in 1..Len(e[2].points) : \A axis \in { 1, 2 } :
                  LET anchor == C9_Anchor(orig, corner, axis)
                      was == e[2].points[k][axis] - anchor
                      now == lines'[e[1] + 1].points[k][axis] - anchor
                      origExtent == C9_Dragged(orig, corner, axis) - anchor
                      newExtent == C9_Handle(p, corner, axis) - anchor
                  IN  IF origExtent # 0 THEN now * origExtent = was * newExtent
                      ELSE now = was ]_vars

\* C9, amended: during a resize every point of every snapshotted stroke is
\* placed so that, on each axis of positive original extent, its distance from
\* the anchored (opposite) corner is the original distance times new extent /
\* original extent; on an axis of original extent 0 the point is placed at the
\* new box's minimum on that axis.
C9_ScaledFromAnchorOrAtMin ==
    [][ C9_ResizeStep =>
          LET orig == Unwrap(resize_original_bbox)
              corner == Unwrap(resizing_corner)
              p == Unwrap(last'.p)
          IN  \A e \in C9_Snapshot : \A k \in 1..Len(e[2].points) : \A axis \in { 1, 2 } :
                  LET anchor == C9_Anchor(orig, corner, axis)
                      was == e[2].points[k][axis] - anchor
                      now == lines'[e[1] + 1].points[k][axis] - anchor
                      origExtent == C9_Dragged(orig, corner, axis) - anchor
                      newExtent == C9_Handle(p, corner, axis) - anchor
                  IN  IF origExtent # 0 THEN now * origExtent = was * newExtent
                      ELSE lines'[e[1] + 1].points[k][axis] =
                               (IF C9_MovesMin(corner, axis)
                                THEN C9_Handle(p, corner, axis) ELSE orig.min[axis]) ]_vars

\* C9's case: a resize that doubles the width of a stroke's box and keeps its
\* height, the stroke's far point now twice as far from the anchored corner
C9_Witness ==
    /\ last.ev = "Resize"
    /\ resizing_corner = Some("BottomRight")
    /\ resize_original_bbox = Some(MkRect(<< 0, 0 >>, << 10, 10 >>))
    /\ last.p = Some(<< 25, 15 >>)
    /\ \E n \in 1..Len(lines) : lines[n].points = << << 0, 0 >>, << 20, 10 >> >>

\* C10: when opening a file fails, because the file cannot be read or because
\* its contents are not a whiteboard document, the canvas, the palette, the file
\* association, the selection and the undo history are as before the attempt.
C10_FailedOpenChangesNothing ==
    [][ Stepped("OpenReadFailed") \/ Stepped("OpenInvalid") =>
          UNCHANGED << lines, palette, whiteboard_file, selected_lines, undo_stack >> ]_vars

\* C10's case: an open of a file that is no document failed over a canvas with a
\* stroke, a selection, a history and a file association
C10_Witness ==
    /\ last.ev = "OpenInvalid"
    /\ lines # << >> /\ selected_lines # {} /\ undo_stack # << >>
    /\ IsSome(whiteboard_file)
    /\ palette # DefaultPalette


\* The gesture sessions in progress: resize, move, marquee, brush line
C11_Sessions ==
    { k \in { "resize", "move", "marquee", "brush" } :
        \/ k = "resize" /\ IsSome(resizing_corner)
        \/ k = "move" /\ is_moving_selection
        \/ k = "marquee" /\ (IsSome(selection_start) \/ IsSome(selection_current))
        \/ k = "brush" /\ current_line # << >> }

\* C11: in every reachable state at most one gesture session is in progress:
\* the resize session, the move session, the marquee session and the brush's
\* in-progress line are never active at the same time.
C11_AtMostOneSession == Cardinality(C11_Sessions) <= 1


\* A stroke keeps its color, its width and its number of points
C12_SameShape(a, b) ==
    a.color = b.color /\ a.width = b.width /\ Len(a.points) = Len(b.points)

\* C12: a committed stroke's color, width and number of points never change,
\* and its point coordinates change only in a selection-move or
\* selection-resize step while the stroke is in the current selection, key
\* presses in the middle of the gesture included.  (A step that adds strokes
\* keeps the ones before it as they are; a step that removes strokes leaves
\* only strokes that were there.)
C12_StrokesImmutable ==
    [][ IF Len(lines') = Len(lines)
        THEN \A n \in 1..Len(lines) :
                 /\ C12_SameShape(lines[n], lines'[n])
                 /\ lines'[n].points # lines[n].points =>
                        /\ last'.ev \in { "Move", "Resize" }
                        /\ (n - 1) \in selected_lines
        ELSE IF Len(lines') > Len(lines)
        THEN SubSeq(lines', 1, Len(lines)) = lines
        ELSE \A n \in 1..Len(lines') : \E m \in 1..Len(lines) : lines'[n] = lines[m] ]_vars

\* C13: in every reachable state every index in the selection set refers to
\* an existing stroke: it is below the number of strokes on the canvas.
C13_SelectionRefersToStrokes == \A i \in selected_lines : i < Len(lines)

\* C14: in every reachable state the palette's active index is a valid slot
\* (below the number of palette colors) and the process has not died reading
\* the active color.
C14_ActiveIndexValid ==
    /\ palette.active_color_index < Len(palette.colors)
    /\ ~panicked

\* The corner handles whose 10x10 hit box holds p: the corners of the selected
\* strokes' bounding box expanded by 5, in the order of the code
C15_Handles(p) ==
    LET info == get_selection_info(lines, selected_lines)
        box == Unwrap(info).expanded_bbox
        cx(c) == IF c \in { "TopLeft", "BottomLeft" } THEN box.min[1] ELSE box.max[1]
        cy(c) == IF c \in { "TopLeft", "TopRight" } THEN box.min[2] ELSE box.max[2]
    IN  IF ~IsSome(info) THEN {}
        ELSE { c \in Range(Corners) :
                 /\ Abs(2 * (p[1] - cx(c))) <= CORNER_SIZE
                 /\ Abs(2 * (p[2] - cy(c))) <= CORNER_SIZE }

C15_InsideExpanded(p) ==
    LET info == get_selection_info(lines, selected_lines)
    IN  IsSome(info) /\ RectContains(Unwrap(info).expanded_bbox, p)

\* The selected strokes, each with its index
C15_SelectedStrokes ==
    { << i, lines[i + 1] >> : i \in { j \in selected_lines : j < Len(lines) } }

\* A drag starts with the Selection tool
C15_DragStart == ~dragging /\ dragging' /\ current_tool = "Selection"

\* C15: a drag-start in Selection mode takes exactly one of three branches, in
\* this order: with a non-empty selection and the pointer in a corner
\* handle's hit box, a resize session starts for such a corner with a
\* snapshot of the bounding box and of exactly the selected strokes;
\* otherwise with a non-empty selection and the pointer inside the expanded
\* bounding box, a move session starts; otherwise the selection is cleared
\* and a marquee session starts anchored at the pointer.
C15_DragStartPriority ==
    [][ C15_DragStart =>
          LET p == Unwrap(last'.p)
          IN  IF selected_lines # {} /\ C15_Handles(p) # {}
              THEN /\ IsSome(resizing_corner')
                   /\ Unwrap(resizing_corner') \in C15_Handles(p)
                   /\ resize_original_bbox' =
                          Some(Unwrap(get_selection_info(lines, selected_lines)).bounding_box)
                   /\ resize_original_lines' = C15_SelectedStrokes
                   /\ UNCHANGED << lines, selected_lines, is_moving_selection,
                                   selection_start, selection_current >>
              ELSE IF selected_lines # {} /\ C15_InsideExpanded(p)
              THEN /\ is_moving_selection' /\ last_mouse_pos' = Some(p)
                   /\ UNCHANGED << lines, selected_lines, resizing_corner,
                                   resize_original_bbox, resize_original_lines,
                                   selection_start, selection_current >>
              ELSE /\ selected_lines' = {}
                   /\ selection_start' = Some(p) /\ selection_current' = Some(p)
                   /\ UNCHANGED << lines, is_moving_selection, resizing_corner,
                                   resize_original_bbox, resize_original_lines >> ]_vars

\* C15's case: a press on a handle that also lies inside the expanded
\* bounding box started a resize of two selected strokes
C15_Witness ==
    /\ last.ev = "StartResize"
    /\ Cardinality(selected_lines) = 2
    /\ Cardinality(resize_original_lines) = 2
    /\ IsSome(resizing_corner)
    /\ ~is_moving_selection

\* No selection session is in progress
C16_Idle ==
    /\ resizing_corner = None
    /\ resize_original_bbox = None
    /\ resize_original_lines = {}
    /\ ~is_moving_selection
    /\ selection_start = None
    /\ selection_current = None

\* C16: after a drag-stop handled in Selection mode the selection state
\* machine is Idle: the resizing corner, the original bounding box, the
\* resize snapshot, the moving flag and both marquee anchors are cleared,
\* whatever phase was active before.
C16_IdleAfterDragStop ==
    [][ dragging /\ ~dragging' /\ current_tool = "Selection" => C16_Idle' ]_vars

\* C17: during a resize session the recomputed bounding box never has a zero
\* or negative width or height, for any pointer position reached while
\* dragging any of the four corners.
C17_ResizedBoxPositive ==
    [][ Stepped("Resize") /\ IsSome(resize_original_bbox) =>
          LET new_bbox == NewBBox(Unwrap(resize_original_bbox), Unwrap(last'.p),
                                  Unwrap(resizing_corner))
          IN  Width(new_bbox) > 0 /\ Height(new_bbox) > 0 ]_vars

\* C18: the erase radius applied to a stroke is that stroke's own width plus
\* 5, whatever the width slider shows: an eraser event removes the strokes
\* with a segment nearer to the pointer than their own width plus 5, and no
\* other.
C18_RadiusFromOwnWidth ==
    [][ Stepped("Eraser") =>
          LET Far(line) == ~C7_Below(line, Unwrap(last'.p), line.width + ERASE_TOLERANCE)
          IN  lines' = SelectSeq(lines, Far) ]_vars

\* C19: each no-op condition changes no application state: Delete with an
\* empty selection, undo on an empty history and a brush drag-stop with
\* nothing to commit leave the canvas, the undo history and the selection
\* as they were.
C19_NoOpsChangeNothing ==
    [][ \/ Stepped("DeleteNone")
        \/ Stepped("UndoNone")
        \/ Stepped("StopIdle") /\ current_tool = "Brush"
        => UNCHANGED << lines, undo_stack, selected_lines >> ]_vars

\* Escape empties the selection and ends every selection session without
\* touching the canvas or the undo history
C20_EscapeStep ==
    Stepped("KeyEscape") =>
        /\ selected_lines' = {}
        /\ C16_Idle'
        /\ UNCHANGED << lines, undo_stack >>

\* A drag-continue or drag-stop event of a gesture in which Escape was pressed
C20_DragAfterEscape == escaped /\ dragging /\ (IsSome(last'.p) \/ ~dragging')

\* C20: pressing Escape in any state empties the selection and ends any
\* marquee, move or resize session, leaving the canvas and the undo history
\* unchanged; the drag-continue and drag-stop events that follow in the same
\* gesture change neither the canvas nor the selection.
C20_EscapeEndsGesture ==
    [][ /\ C20_EscapeStep
        /\ C20_DragAfterEscape => UNCHANGED << lines, selected_lines >> ]_vars

\* C20, amended: as above, for the drag-continue and drag-stop events handled
\* while the Selection tool is the current tool; with the Brush or the Eraser
\* tool the gesture goes on drawing or erasing after Escape.
C20_EscapeEndsSelectionGesture ==
    [][ /\ C20_EscapeStep
        /\ C20_DragAfterEscape /\ current_tool = "Selection" =>
               UNCHANGED << lines, selected_lines >> ]_vars

\* C20's case: Escape was pressed during a gesture of the Selection tool over
\* a canvas with a stroke, and a drag-continue event followed it
C20_Witness ==
    /\ escaped /\ dragging
    /\ current_tool = "Selection"
    /\ last.ev = "Idle"
    /\ lines # << >>
    /\ selected_lines = {}

\* A push: entries are added at the newest end, entries leave only from the
\* oldest end and only when the bound is passed, and the entries kept stay
\* in their order
C21_Pushed(old, new) ==
    \E d \in 0..Len(old) :
        /\ Len(new) >= Len(old) - d
        /\ SubSeq(new, 1, Len(old) - d) = SubSeq(old, d + 1, Len(old))
        /\ d > 0 => Len(new) >= MAX_UNDO_STACK_SIZE

\* An undo: the entry popped is the newest one held, and it is the one undone
C21_Popped ==
    IF undo_stack = << >> THEN undo_stack' = << >> /\ lines' = lines
    ELSE LET top == undo_stack[Len(undo_stack)]
         IN  /\ undo_stack' = SubSeq(undo_stack, 1, Len(undo_stack) - 1)
             /\ top.kind = "Erase" => lines' = Append(lines, top.line)
             /\ top.kind = "Draw" => lines' = SubSeq(lines, 1, Len(lines) - 1)

\* C21: the undo history is strictly LIFO with oldest-first eviction: pop
\* returns the most recently pushed entry still held (none when empty),
\* eviction removes only the entry at the oldest end, and no push or eviction
\* changes the relative order of the entries kept.
C21_LifoOldestEvicted ==
    [][ IF last'.ev \in { "UndoNone", "UndoErase", "UndoDraw" }
        THEN C21_Popped
        ELSE C21_Pushed(undo_stack, undo_stack') ]_vars

\* C21's case: the newest entry was popped from a history that had evicted
\* its oldest entry
C21_Witness ==
    /\ last.ev = "UndoDraw"
    /\ Len(undo_stack) = MAX_UNDO_STACK_SIZE - 1
    /\ NewEntries(undo_stack) >= 1
    /\ undo_stack[1] = Draw(PrefillLine)

\* C22: an eraser event that removes at least one stroke removes all
\* qualifying strokes (those with a segment nearer to the pointer than the
\* erase radius) in that one event, keeps the surviving strokes in their
\* order, pushes one Erase entry per removed stroke in canvas order and
\* empties the selection; an eraser event that removes nothing leaves the
\* canvas, the undo history and the selection unchanged.
C22_EraserBatch ==
    [][ Stepped("Eraser") =>
          LET p == Unwrap(last'.p)
              Stays(line) == ~C7_Below(line, p, erase_radius)
              Goes(line) == C7_Below(line, p, erase_radius)
              removed == SelectSeq(lines, Goes)
              pushed == undo_stack \o [i \in 1..Len(removed) |-> Erase(removed[i])]
          IN  IF removed = << >>
              THEN UNCHANGED << lines, undo_stack, selected_lines >>
              ELSE /\ lines' = SelectSeq(lines, Stays)
                   /\ \E d \in 0..Len(pushed) :
                          /\ undo_stack' = SubSeq(pushed, d + 1, Len(pushed))
                          /\ d > 0 => Len(pushed) > MAX_UNDO_STACK_SIZE
                   /\ selected_lines' = {} ]_vars

\* C22's case: one eraser event removed two different strokes, and a full
\* history ends with their two Erase entries in canvas order
C22_Witness ==
    /\ last.ev = "Eraser"
    /\ IsSome(batch)
    /\ Len(Unwrap(batch).erased) = 2
    /\ Unwrap(batch).erased[1] # Unwrap(batch).erased[2]
    /\ Len(undo_stack) >= MAX_UNDO_STACK_SIZE
    /\ LastN(undo_stack, 2) = [i \in 1..2 |-> Erase(Unwrap(batch).erased[i])]

\* The point a snapshotted point op is put at when the original box orig
\* becomes the box new: new_min + (op - orig_min) * new extent / orig extent
\* on an axis of positive original extent, new_min + (op - orig_min) on one
\* of extent 0
C23_Axis(op, orig, new, axis) ==
    LET ow == orig.max[axis] - orig.min[axis]
        nw == new.max[axis] - new.min[axis]
    IN  IF ow > 0 THEN new.min[axis] + ((op[axis] - orig.min[axis]) * nw) \div ow
        ELSE new.min[axis] + (op[axis] - orig.min[axis])

C23_Placed(points, orig, new) ==
    [k \in 1..Len(points) |->
        << C23_Axis(points[k], orig, new, 1), C23_Axis(points[k], orig, new, 2) >>]

\* The geometry after a drag-continue event of a resize session is a function
\* of the drag-start snapshot and of the event's pointer position alone, and
\* the strokes outside the snapshot stay as they are
C23_FromSnapshotAndPointer ==
    Stepped("Resize") /\ IsSome(resize_original_bbox) =>
        LET orig == Unwrap(resize_original_bbox)
            new == NewBBox(orig, Unwrap(last'.p), Unwrap(resizing_corner))
        IN  /\ Len(lines') = Len(lines)
            /\ \A e \in resize_original_lines :
                   lines'[e[1] + 1] =
                       [e[2] EXCEPT !.points = C23_Placed(e[2].points, orig, new)]
            /\ \A n \in 1..Len(lines) :
                   (\A e \in resize_original_lines : e[1] # n - 1) => lines'[n] = lines[n]

\* C23: within one resize session the strokes after any sequence of
\* drag-continue events depend only on the drag-start snapshot and the latest
\* pointer position, and a drag-continue event at the position the drag
\* started at leaves the snapshotted geometry.
C23_ResizeFromSnapshot ==
    [][ /\ C23_FromSnapshotAndPointer
        /\ last.ev = "StartResize" /\ Stepped("Resize") /\ last'.p = last.p =>
               \A e \in resize_original_lines : lines'[e[1] + 1] = e[2] ]_vars

\* The center of the handle being dragged: the corner of the original
\* bounding box expanded by 5
C23_HandleCenter ==
    LET box == Expand(Unwrap(resize_original_bbox), EXPAND_MARGIN)
        c == Unwrap(resizing_corner)
    IN  << IF c \in { "TopLeft", "BottomLeft" } THEN box.min[1] ELSE box.max[1],
           IF c \in { "TopLeft", "TopRight" } THEN box.min[2] ELSE box.max[2] >>

\* C23, amended: as above, and a drag-continue event with the pointer on the
\* center of the dragged handle (the corner of the original bounding box
\* expanded by 5) leaves the snapshotted geometry; a press off the center
\* followed by a drag-continue event at the same position does not.
C23_ResizeFromSnapshotAtCenter ==
    [][ /\ C23_FromSnapshotAndPointer
        /\ Stepped("Resize") /\ IsSome(resize_original_bbox)
               /\ Unwrap(last'.p) = C23_HandleCenter =>
               \A e \in resize_original_lines : lines'[e[1] + 1] = e[2] ]_vars

\* C23's case: a resize session dragged its handle away and back onto its
\* center, and the stroke has its snapshotted geometry again
C23_Witness ==
    /\ last.ev = "Resize"
    /\ IsSome(resize_original_bbox)
    /\ Unwrap(last.p) = C23_HandleCenter
    /\ resize_original_lines # {}
    /\ \A e \in resize_original_lines : lines[e[1] + 1] = e[2]
    /\ Width(Unwrap(resize_original_bbox)) > 0

\* C24: when the gesture that a move's drag-start began at p0 ends after
\* passing through p1..pn, every stroke of the selection stands translated by
\* exactly pn - p0 from where it was at the drag-start, and no drag-continue
\* event of the move changes a stroke outside the selection.
C24_MoveTranslatesByTotal ==
    [][ /\ dragging /\ ~dragging' /\ IsSome(moved_from) =>
               LET g == Unwrap(moved_from)
                   d == << g.pn[1] - g.p0[1], g.pn[2] - g.p0[2] >>
               IN  \A n \in 1..Len(lines) :
                       (n - 1) \in selected_lines =>
                           /\ n <= Len(g.lines)
                           /\ lines[n] = Translate(g.lines[n], d)
        /\ Stepped("Move") =>
               /\ Len(lines') = Len(lines)
               /\ \A n \in 1..Len(lines) :
                      (n - 1) \notin selected_lines => lines'[n] = lines[n] ]_vars

\* C25: whenever no pointer drag is in progress the brush's in-progress line
\* is empty, whatever tool keys and tool bar clicks come between the events of
\* the brush drags, and a brush gesture starts its line from its own first
\* sample, so that no point sampled in an earlier gesture is in the stroke it
\* commits.
C25_LineEmptyBetweenGestures ==
    [][ /\ ~dragging' /\ ~panicked' => current_line' = << >>
        /\ ~dragging /\ dragging' /\ current_tool = "Brush" =>
               current_line' = << Unwrap(last'.p) >> ]_vars

\* C26: the brush's in-progress line never holds two equal consecutive
\* points: a drag sample equal to the last recorded point adds nothing.
C26_NoEqualConsecutive ==
    \A k \in 1..(Len(current_line) - 1) : current_line[k] # current_line[k + 1]

\* C26's case: a brush drag in progress has recorded a second sample, which
\* differs from the first
C26_Witness ==
    /\ dragging /\ current_tool = "Brush"
    /\ last.ev = "BrushSample"
    /\ Len(current_line) = 2
    /\ current_line[2] = Unwrap(last.p)

\* C27: appending a palette color adds exactly one slot at the end, holding
\* the color that was active at the moment of the append, leaves the existing
\* slots as they are and makes the new slot the active one.
C27_AppendCopiesActive ==
    [][ Stepped("PaletteAdd") =>
            /\ ~panicked'
            /\ Len(palette'.colors) = Len(palette.colors) + 1
            /\ palette.active_color_index < Len(palette.colors)
            /\ palette'.colors[Len(palette.colors) + 1] =
                   palette.colors[palette.active_color_index + 1]
            /\ SubSeq(palette'.colors, 1, Len(palette.colors)) = palette.colors
            /\ palette'.active_color_index = Len(palette.colors) ]_vars
====
